---- MODULE Spec2Model ----
(***************************************************************************)
(* Model of modules/common/topology: EnsureTopologyRef (attach a consumer  *)
(* finalizer to a Topology CR, default-fill a copy, hash it) and           *)
(* EnsureDeletedTopologyRef (release the finalizer), run by two consumers  *)
(* against one stored Topology object with optimistic concurrency.         *)
(***************************************************************************)
EXTENDS Naturals, Sequences, FiniteSets, TLC

\* ------------------------------------------------------------- bounds ---
\* The longest list of constraints or affinity terms a stored Topology has.
MaxTerms == 2

\* ---------------------------------------------------------- constants ---
StatefulsetMatchLabelKey == "controller-revision-hash"
DeploymentMatchLabelKey == "pod-template-hash"

\* h.GetFinalizer(): the owner prefix shared by the consumers of the model.
OwnerFinalizer == "openstack.org/svc"

\* The consumers; each passes its own name as the finalizer suffix.
Consumers == {"api", "sched"}

\* A nil *metav1.LabelSelector.
NilSelector == "<nil>"

\* Errors.
NoErr == "nil"
ErrInvalidRef == "No valid TopologyRef input passed"
ErrNotFound == "NotFound"
ErrConflict == "Conflict"
ErrStore == "StoreError"
ErrHash == "HashError"

\* ------------------------------------------------------ pure helpers ---

\* fmt.Sprintf("%s-%s", h.GetFinalizer(), finalizer)
FinalizerToken(prefix, finalizer) == prefix \o "-" \o finalizer

Contains(s, x) == \E i \in 1..Len(s) : s[i] = x

Count(s, x) == Cardinality({i \in 1..Len(s) : s[i] = x})

\* Mutant: the "changed" flag is ignored and the Update always made.
AddFinalizerAlwaysChanged(fins, tok) == TRUE

\* controllerutil.AddFinalizer: append when absent; the result's "changed"
\* flag is AddFinalizerChanged.
AddFinalizerChanged(fins, tok) == ~Contains(fins, tok)

AddFinalizer(fins, tok) == IF Contains(fins, tok) THEN fins ELSE Append(fins, tok)

\* Mutant: the finalizer list is cleared instead of losing one token.
RemoveAllFinalizers(fins, tok) == <<>>

\* controllerutil.RemoveFinalizer: drop every occurrence, keep the order.
RemoveFinalizerChanged(fins, tok) == Contains(fins, tok)

RemoveFinalizer(fins, tok) == SelectSeq(fins, LAMBDA f : f # tok)

\* Mutant: only a nil reference is refused.
InvalidRefNilOnly(ref) == ref.isNil

\* The reference check both operations start with.
InvalidRef(ref) == ref.isNil \/ (ref.Name = "" \/ ref.Namespace = "")

\* Mutant: the label selector is set to the default even when one is stored.
FillTermOverwrite(t, defaultLabelSelector, defaultMatchLabelKeys) ==
  [t EXCEPT !.LabelSelector = defaultLabelSelector,
            !.MatchLabelKeys = IF Len(@) = 0 THEN defaultMatchLabelKeys ELSE @]

\* The two defaulting rules applied to one constraint or affinity term.
FillTerm(t, defaultLabelSelector, defaultMatchLabelKeys) ==
  [t EXCEPT !.LabelSelector = IF @ = NilSelector THEN defaultLabelSelector ELSE @,
            !.MatchLabelKeys = IF Len(@) = 0 THEN defaultMatchLabelKeys ELSE @]

\* for i := range <terms>: the rules on every entry, in place.
FillTerms(ts, dls, dmk) == [i \in 1..Len(ts) |-> FillTerm(ts[i], dls, dmk)]

\* for i := range <preferred>: the rules on every entry's PodAffinityTerm.
FillWeighted(ws, dls, dmk) ==
  [i \in 1..Len(ws) |-> [ws[i] EXCEPT !.PodAffinityTerm = FillTerm(@, dls, dmk)]]

\* One of PodAffinity / PodAntiAffinity (a pointer: isNil).
FillPodAffinity(pa, dls, dmk) ==
  IF pa.isNil THEN pa
  ELSE [pa EXCEPT !.Required = FillTerms(@, dls, dmk),
                  !.Preferred = FillWeighted(@, dls, dmk)]

FillAffinity(a, dls, dmk) ==
  IF a.isNil THEN a
  ELSE [a EXCEPT !.PodAffinity = FillPodAffinity(@, dls, dmk),
                 !.PodAntiAffinity = FillPodAffinity(@, dls, dmk)]

FillConstraints(c, dls, dmk) ==
  IF c.isNil THEN c ELSE [c EXCEPT !.items = FillTerms(@, dls, dmk)]

\* The default-fill of EnsureTopologyRef on the copy's Spec.
SetDefaults(spec, dls, dmk) ==
  [spec EXCEPT !.TopologySpreadConstraints = FillConstraints(@, dls, dmk),
               !.Affinity = FillAffinity(@, dls, dmk)]

\* util.ObjectHash: a digest of the JSON form of its argument; the model keeps
\* the JSON form itself, as its sequence of tokens.  A nil pointer is omitted
\* from the JSON form, and so is an empty MatchLabelKeys list.  The empty
\* string, the hash of nothing, is the empty sequence.
EmptyHash == <<>>

HashTerm(t) ==
  <<"{", "topologyKey", t.TopologyKey>>
    \o (IF t.LabelSelector = NilSelector THEN <<>> ELSE <<"labelSelector", t.LabelSelector>>)
    \o (IF Len(t.MatchLabelKeys) = 0 THEN <<>> ELSE <<"matchLabelKeys", "[">> \o t.MatchLabelKeys \o <<"]">>)
    \o <<"}">>

RECURSIVE HashTerms(_)
HashTerms(ts) == IF Len(ts) = 0 THEN <<>> ELSE HashTerm(ts[1]) \o HashTerms(Tail(ts))

RECURSIVE HashWeighted(_)
HashWeighted(ws) ==
  IF Len(ws) = 0 THEN <<>>
  ELSE <<"{", "weight", ws[1].Weight, "podAffinityTerm">> \o HashTerm(ws[1].PodAffinityTerm)
         \o <<"}">> \o HashWeighted(Tail(ws))

HashPodAffinity(name, pa) ==
  IF pa.isNil THEN <<>>
  ELSE <<name, "{", "required", "[">> \o HashTerms(pa.Required)
         \o <<"]", "preferred", "[">> \o HashWeighted(pa.Preferred) \o <<"]", "}">>

ObjectHash(spec) ==
  <<"{">>
    \o (IF spec.TopologySpreadConstraints.isNil THEN <<>>
        ELSE <<"topologySpreadConstraints", "[">>
               \o HashTerms(spec.TopologySpreadConstraints.items) \o <<"]">>)
    \o (IF spec.Affinity.isNil THEN <<>>
        ELSE <<"affinity", "{">> \o HashPodAffinity("podAffinity", spec.Affinity.PodAffinity)
               \o HashPodAffinity("podAntiAffinity", spec.Affinity.PodAntiAffinity) \o <<"}">>)
    \o <<"}">>

\* The two results of util.ObjectHash: the digest, or the empty string and an
\* error when the argument cannot be encoded (failed).
ObjectHashResult(spec, failed) ==
  IF failed THEN [hash |-> EmptyHash, err |-> ErrHash]
  ELSE [hash |-> ObjectHash(spec), err |-> NoErr]

\* ------------------------------------------- the stored Topology CRs ---
Term(key, sel, mlk) == [TopologyKey |-> key, LabelSelector |-> sel, MatchLabelKeys |-> mlk]

Weighted(w, t) == [Weight |-> w, PodAffinityTerm |-> t]

\* Terms with neither, both, and one of the two defaulted fields set.
TUnset == Term("zone", NilSelector, <<>>)
TSet == Term("host", "app=db", <<StatefulsetMatchLabelKey>>)
TSelOnly == Term("zone", "app=db", <<>>)
TKeysOnly == Term("host", NilSelector, <<DeploymentMatchLabelKey>>)

TermCycle == <<TUnset, TSet, TSelOnly, TKeysOnly>>

\* n terms, taken in turn from the cycle after skipping the first k.
TermsFrom(k, n) == [i \in 1..n |-> TermCycle[((k + i - 1) % 4) + 1]]

WeightedFrom(k, n) == [i \in 1..n |-> Weighted(IF i % 2 = 1 THEN "1" ELSE "2", TermsFrom(k, n)[i])]

NilPodAffinity == [isNil |-> TRUE, Required |-> <<>>, Preferred |-> <<>>]

PodAffinityOf(req, pref) == [isNil |-> FALSE, Required |-> req, Preferred |-> pref]

NilAffinity == [isNil |-> TRUE, PodAffinity |-> NilPodAffinity, PodAntiAffinity |-> NilPodAffinity]

AffinityOf(pa, paa) == [isNil |-> FALSE, PodAffinity |-> pa, PodAntiAffinity |-> paa]

NilConstraints == [isNil |-> TRUE, items |-> <<>>]

ConstraintsOf(ts) == [isNil |-> FALSE, items |-> ts]

TopologySpec(c, a) == [TopologySpreadConstraints |-> c, Affinity |-> a]

EmptySpec == TopologySpec(NilConstraints, NilAffinity)

\* Every list in use, with lists of every length up to MaxTerms.
FullSpec ==
  TopologySpec(ConstraintsOf(TermsFrom(0, MaxTerms)),
               AffinityOf(PodAffinityOf(TermsFrom(2, MaxTerms - 1), WeightedFrom(3, MaxTerms)),
                          PodAffinityOf(TermsFrom(1, MaxTerms), WeightedFrom(0, MaxTerms - 1))))

\* An empty constraint list, no PodAffinity, and a PodAntiAffinity without
\* required terms.
PartialSpec ==
  TopologySpec(ConstraintsOf(<<>>),
               AffinityOf(NilPodAffinity, PodAffinityOf(<<>>, WeightedFrom(0, MaxTerms))))

\* The Specs a Topology CR of the model is created with.
StoredSpecs == {EmptySpec, FullSpec, PartialSpec}

\* The references a caller passes; a valid one names the stored Topology.
ValidRef == [isNil |-> FALSE, Name |-> "topo", Namespace |-> "ns"]

InvalidRefs ==
  { [isNil |-> TRUE, Name |-> "", Namespace |-> ""],
    [isNil |-> FALSE, Name |-> "", Namespace |-> "ns"],
    [isNil |-> FALSE, Name |-> "topo", Namespace |-> ""] }

\* The defaults a caller passes (defaultLabelSelector, defaultMatchLabelKeys).
Defaults ==
  { [dls |-> "app=svc", dmk |-> <<DeploymentMatchLabelKey>>],
    [dls |-> "app=web", dmk |-> <<>>] }

NoDefaults == [dls |-> "", dmk |-> <<>>]

\* What may go wrong in a call for reasons outside it: the Get, the Update or
\* the hashing fails.
NoFault == "none"
GetFault == "get"
UpdateFault == "update"
HashFault == "hash"

\* The inputs of a call: a reference with the defaults, and the fault met.
CallInput(ref, d, fault) == [ref |-> ref, dls |-> d.dls, dmk |-> d.dmk, fault |-> fault]

EnsureTopologyRefInputs ==
  {CallInput(ValidRef, d, f) : d \in Defaults, f \in {NoFault, GetFault, HashFault}}
    \cup {CallInput(r, CHOOSE d \in Defaults : d.dmk = <<>>, NoFault) : r \in InvalidRefs}

NoDefaultsInputs ==
  {CallInput(ValidRef, NoDefaults, f) : f \in {NoFault, GetFault}}
    \cup {CallInput(r, NoDefaults, NoFault) : r \in InvalidRefs}

\* A zero Topology value.
ZeroObject == [finalizers |-> <<>>, spec |-> EmptySpec]

\* ---------------------------------------------------------- the state ---
VARIABLES
  store,     \* the API server's copy of the Topology CR
  spec0,     \* the Spec the Topology CR was created with
  pc,        \* per consumer: "idle", "update" (fetched, Update pending), "done"
  args,      \* per consumer: the operation in progress and its arguments
  topology,  \* per consumer: the local variable topology
  ret,       \* per consumer: what the last call returned
  trace      \* per consumer: the store calls of the current call, in order

vars == <<store, spec0, pc, args, topology, ret, trace>>

OpAttach == "EnsureTopologyRef"
OpAttachV0 == "EnsureTopologyRef(part_000)"
OpDetach == "EnsureDeletedTopologyRef"

Token(p) == FinalizerToken(OwnerFinalizer, p)

NoArgs == [op |-> "none", ref |-> ValidRef, dls |-> "", dmk |-> <<>>]

NoRet == [isNil |-> TRUE, hash |-> EmptyHash, err |-> NoErr]

\* The store after the Topology CR is gone.
GoneStore == [exists |-> FALSE, deleting |-> FALSE, current |-> {}, finalizers |-> <<>>, spec |-> EmptySpec]

Init ==
  /\ spec0 \in StoredSpecs
  /\ store = [exists |-> TRUE, deleting |-> FALSE, current |-> {}, finalizers |-> <<>>, spec |-> spec0]
  /\ pc = [p \in Consumers |-> "idle"]
  /\ args = [p \in Consumers |-> NoArgs]
  /\ topology = [p \in Consumers |-> ZeroObject]
  /\ ret = [p \in Consumers |-> NoRet]
  /\ trace = [p \in Consumers |-> <<>>]

\* ------------------------------------------------- the object store ---
\* The store compares resourceVersions for equality only: store.current is
\* the set of consumers whose fetched copy carries the stored resourceVersion.

\* One store call as the trace records it.
StoreCall(call, err) == [call |-> call, err |-> err]

\* client.Get through topologyv1.GetTopologyByName: the object and the hash of
\* its Spec, or an error.
GetTopologyByName(fault) ==
  IF fault = GetFault THEN [obj |-> ZeroObject, hash |-> EmptyHash, err |-> ErrStore]
  ELSE IF ~store.exists THEN [obj |-> ZeroObject, hash |-> EmptyHash, err |-> ErrNotFound]
  ELSE [obj |-> [finalizers |-> store.finalizers, spec |-> store.spec],
        hash |-> ObjectHash(store.spec), err |-> NoErr]

\* The store after p's Get: p's copy carries the stored resourceVersion.
AfterGet(p, got) ==
  IF got.err = NoErr THEN [store EXCEPT !.current = @ \cup {p}] ELSE store

\* Whether p's copy was read at an older resourceVersion than the stored one.
StaleRead(p) == p \notin store.current

\* client.Update of p's copy obj: not found when the object is gone, a conflict
\* when the read is stale, or refused for a reason of the store's own; an
\* object under deletion goes once its last finalizer is removed.
Update(p, obj, fault) ==
  IF ~store.exists THEN [err |-> ErrNotFound, store |-> store]
  ELSE IF StaleRead(p) THEN [err |-> ErrConflict, store |-> store]
  ELSE IF fault = UpdateFault THEN [err |-> ErrStore, store |-> store]
  ELSE [err |-> NoErr,
        store |-> IF store.deleting /\ Len(obj.finalizers) = 0 THEN GoneStore
                  ELSE [store EXCEPT !.current = {}, !.finalizers = obj.finalizers,
                                     !.spec = obj.spec]]

\* A consumer starts a call: its state of the last call is dropped.
Start(p, o, in) ==
  /\ pc[p] # "update"
  /\ args' = [args EXCEPT ![p] = [op |-> o, ref |-> in.ref, dls |-> in.dls, dmk |-> in.dmk]]
  /\ spec0' = spec0

\* The call of consumer p returns.
Return(p, obj, isNil, hash, err, calls) ==
  /\ pc' = [pc EXCEPT ![p] = "done"]
  /\ topology' = [topology EXCEPT ![p] = obj]
  /\ ret' = [ret EXCEPT ![p] = [isNil |-> isNil, hash |-> hash, err |-> err]]
  /\ trace' = [trace EXCEPT ![p] = calls]

\* The call of consumer p goes on to its Update of obj.
ToUpdate(p, obj, hash, calls) ==
  /\ pc' = [pc EXCEPT ![p] = "update"]
  /\ topology' = [topology EXCEPT ![p] = obj]
  /\ ret' = [ret EXCEPT ![p] = [NoRet EXCEPT !.hash = hash]]
  /\ trace' = [trace EXCEPT ![p] = calls]

\* ------------------------------------------------ EnsureTopologyRef ---
\* Mutant: the copy is returned as fetched, no default filled in.
CopyWithoutDefaults(obj, dls, dmk) == obj

\* topology.DeepCopy() with the defaults filled in.
DefaultedCopy(obj, dls, dmk) == [obj EXCEPT !.spec = SetDefaults(@, dls, dmk)]

\* Mutant: the defaults are filled in before the Update, on the object it
\* writes.
WithFinalizerAndDefaults(obj, tok) ==
  [finalizers |-> AddFinalizer(obj.finalizers, tok),
   spec |-> SetDefaults(obj.spec, "app=svc", <<DeploymentMatchLabelKey>>)]

\* What EnsureTopologyRef hands to client.Update: the fetched object with the
\* token added.
WithFinalizer(obj, tok) == [obj EXCEPT !.finalizers = AddFinalizer(@, tok)]

\* Mutant: the hash is taken of the fetched Spec, before the defaults.
HashInputFetched(obj, copy) == obj.spec

\* What EnsureTopologyRef hands to util.ObjectHash, of the fetched object and
\* its defaulted copy.
HashInput(obj, copy) == copy.spec

\* Lines 75-149: copy, default-fill, hash, return.
FillAndHash(p, obj, dls, dmk, fault, calls) ==
  LET copy == DefaultedCopy(obj, dls, dmk)
      res == ObjectHashResult(HashInput(obj, copy), fault = HashFault)
  IN  Return(p, copy, FALSE, res.hash, res.err, calls)

\* Lines 53-69: validation, the Get, AddFinalizer; and lines 75-149 when the
\* token is there already.
EnsureTopologyRefFetch(p, in) ==
  /\ Start(p, OpAttach, in)
  /\ IF InvalidRef(in.ref)
     THEN store' = store /\ Return(p, ZeroObject, TRUE, EmptyHash, ErrInvalidRef, <<>>)
     ELSE LET got == GetTopologyByName(in.fault)
              calls == <<StoreCall("Get", got.err)>>
          IN  /\ store' = AfterGet(p, got)
              /\ IF got.err # NoErr THEN Return(p, got.obj, FALSE, EmptyHash, got.err, calls)
                 ELSE IF AddFinalizerChanged(got.obj.finalizers, Token(p))
                 THEN ToUpdate(p, WithFinalizer(got.obj, Token(p)), EmptyHash, calls)
                 ELSE FillAndHash(p, got.obj, in.dls, in.dmk, in.fault, calls)

\* Lines 70-149: the Update call and what follows it.
EnsureTopologyRefUpdate(p, fault) ==
  /\ pc[p] = "update" /\ args[p].op = OpAttach
  /\ LET res == Update(p, topology[p], fault)
         calls == Append(trace[p], StoreCall("Update", res.err))
     IN  /\ store' = res.store
         /\ IF res.err # NoErr THEN Return(p, topology[p], FALSE, EmptyHash, res.err, calls)
            ELSE FillAndHash(p, topology[p], args[p].dls, args[p].dmk, fault, calls)
  /\ UNCHANGED <<spec0, args>>

\* part_000, lines 42-57: the variant without defaults, which returns the
\* fetched object and the hash GetTopologyByName computed.
EnsureTopologyRefV0Fetch(p, in) ==
  /\ Start(p, OpAttachV0, in)
  /\ IF InvalidRef(in.ref)
     THEN store' = store /\ Return(p, ZeroObject, TRUE, EmptyHash, ErrInvalidRef, <<>>)
     ELSE LET got == GetTopologyByName(in.fault)
              calls == <<StoreCall("Get", got.err)>>
          IN  /\ store' = AfterGet(p, got)
              /\ IF got.err # NoErr THEN Return(p, got.obj, FALSE, got.hash, got.err, calls)
                 ELSE IF AddFinalizerChanged(got.obj.finalizers, Token(p))
                 THEN ToUpdate(p, WithFinalizer(got.obj, Token(p)), got.hash, calls)
                 ELSE Return(p, got.obj, FALSE, got.hash, NoErr, calls)

\* part_000, lines 58-62.
EnsureTopologyRefV0Update(p, fault) ==
  /\ pc[p] = "update" /\ args[p].op = OpAttachV0
  /\ LET res == Update(p, topology[p], fault)
         calls == Append(trace[p], StoreCall("Update", res.err))
     IN  /\ store' = res.store
         /\ Return(p, topology[p], FALSE, ret[p].hash, res.err, calls)
  /\ UNCHANGED <<spec0, args>>

\* ----------------------------------------- EnsureDeletedTopologyRef ---
\* Mutant: the token is removed from a copy, and the object written as fetched.
WithFinalizerKept(obj, tok) == obj

\* What EnsureDeletedTopologyRef hands to client.Update.
WithoutFinalizer(obj, tok) == [obj EXCEPT !.finalizers = RemoveFinalizer(@, tok)]

\* Mutant: a not-found answer to the Get is an error like any other.
DetachFetchFailsOnNotFound(err) == err # NoErr

\* Mutant: a not-found answer to the Update is an error like any other.
DetachUpdateFailsOnNotFound(err) == err # NoErr

\* Whether EnsureDeletedTopologyRef returns the error of its Get.
DetachFetchFails(err) == err # NoErr /\ err # ErrNotFound

\* Whether EnsureDeletedTopologyRef returns the error of its Update.
DetachUpdateFails(err) == err # NoErr /\ err # ErrNotFound

\* Lines 162-179: validation, the Get, RemoveFinalizer; and the return when
\* no Update is needed.
EnsureDeletedTopologyRefFetch(p, in) ==
  /\ Start(p, OpDetach, in)
  /\ IF InvalidRef(in.ref)
     THEN store' = store /\ Return(p, ZeroObject, TRUE, EmptyHash, NoErr, <<>>)
     ELSE LET got == GetTopologyByName(in.fault)
              calls == <<StoreCall("Get", got.err)>>
          IN  /\ store' = AfterGet(p, got)
              /\ IF DetachFetchFails(got.err)
                 THEN Return(p, got.obj, TRUE, EmptyHash, got.err, calls)
                 ELSE IF got.err # ErrNotFound
                         /\ RemoveFinalizerChanged(got.obj.finalizers, Token(p))
                 THEN ToUpdate(p, WithoutFinalizer(got.obj, Token(p)), EmptyHash, calls)
                 ELSE Return(p, got.obj, TRUE, EmptyHash, NoErr, calls)

\* Lines 180-187: the Update call; a not-found answer is not an error.
EnsureDeletedTopologyRefUpdate(p, fault) ==
  /\ pc[p] = "update" /\ args[p].op = OpDetach
  /\ LET res == Update(p, topology[p], fault)
         calls == Append(trace[p], StoreCall("Update", res.err))
     IN  /\ store' = res.store
         /\ IF DetachUpdateFails(res.err)
            THEN Return(p, topology[p], TRUE, EmptyHash, res.err, calls)
            ELSE Return(p, topology[p], TRUE, EmptyHash, NoErr, calls)
  /\ UNCHANGED <<spec0, args>>

\* ------------------------------------------------- the environment ---
\* A user deletes the Topology CR: it goes at once when it has no finalizer,
\* and is marked for deletion (a write) otherwise.
Delete ==
  /\ store.exists /\ ~store.deleting
  /\ store' = IF Len(store.finalizers) = 0 THEN GoneStore
              ELSE [store EXCEPT !.deleting = TRUE, !.current = {}]
  /\ UNCHANGED <<spec0, pc, args, topology, ret, trace>>

\* An administrator strips the finalizers of a Topology CR marked for
\* deletion, and it goes.
ForceDelete ==
  /\ store.exists /\ store.deleting
  /\ store' = GoneStore
  /\ UNCHANGED <<spec0, pc, args, topology, ret, trace>>

Next ==
  \/ \E p \in Consumers, in \in EnsureTopologyRefInputs : EnsureTopologyRefFetch(p, in)
  \/ \E p \in Consumers, f \in {NoFault, UpdateFault, HashFault} : EnsureTopologyRefUpdate(p, f)
  \/ \E p \in Consumers, in \in NoDefaultsInputs : EnsureTopologyRefV0Fetch(p, in)
  \/ \E p \in Consumers, f \in {NoFault, UpdateFault} : EnsureTopologyRefV0Update(p, f)
  \/ \E p \in Consumers, in \in NoDefaultsInputs : EnsureDeletedTopologyRefFetch(p, in)
  \/ \E p \in Consumers, f \in {NoFault, UpdateFault} : EnsureDeletedTopologyRefUpdate(p, f)
  \/ Delete
  \/ ForceDelete

Spec == Init /\ [][Next]_vars

\* ------------------------------------------------------ the claims ---
Done(p) == pc[p] = "done"

\* A reference that names no object: nil, or without a name or a namespace.
BadRef(ref) == ref.isNil \/ ref.Name = "" \/ ref.Namespace = ""

Attaching(p) == args[p].op \in {OpAttach, OpAttachV0}

Succeeded(p) == Done(p) /\ ~BadRef(args[p].ref) /\ ret[p].err = NoErr

GetOk == StoreCall("Get", NoErr)

UpdateOk == StoreCall("Update", NoErr)

\* The store calls of kind c in p's current call.
CallsOf(p, c) == {i \in 1..Len(trace[p]) : trace[p][i].call = c}

Holds(p) == store.exists /\ Contains(store.finalizers, Token(p))

\* A step of consumer p: a call of p starts, goes on or returns.
PStep(p) ==
  <<pc[p], args[p], topology[p], ret[p], trace[p]>>
    # <<pc'[p], args'[p], topology'[p], ret'[p], trace'[p]>>

\* p starts a call in this step (and, without an Update to make, ends it).
Starts(p) == pc[p] # "update" /\ PStep(p)

\* p's pending Update is made in this step, and the call returns.
Updates(p) == pc[p] = "update" /\ PStep(p)

\* C1: a call with a nil reference, or one with an empty name or namespace,
\* makes no store call; EnsureTopologyRef returns an error with a nil object
\* and an empty hash, EnsureDeletedTopologyRef returns success.
C1_InvalidRefNoStoreCall ==
  \A p \in Consumers :
    (Done(p) /\ BadRef(args[p].ref)) =>
      /\ trace[p] = <<>>
      /\ Attaching(p) => (ret[p].err = ErrInvalidRef /\ ret[p].isNil /\ ret[p].hash = EmptyHash)
      /\ args[p].op = OpDetach => ret[p].err = NoErr

C1_Witness ==
  \E p, q \in Consumers :
    /\ Done(p) /\ args[p].op = OpAttach /\ args[p].ref.Name = "" /\ ~args[p].ref.isNil
    /\ Done(q) /\ args[q].op = OpDetach /\ args[q].ref.Namespace = "" /\ ~args[q].ref.isNil
    /\ Holds(q)

\* C2: an EnsureTopologyRef call that fetches an object already carrying the
\* token makes no Update; and the call that follows a successful call which
\* persisted the token, with the same reference and suffix, makes no Update
\* once its Get succeeds (it finds the token) and returns success, or the
\* error of the hashing when that fails for reasons of its own.
C2_Step(p) ==
  (Starts(p) /\ Attaching(p)' /\ ~BadRef(args'[p].ref)) =>
    /\ (trace'[p][1] = GetOk /\ Contains(store.finalizers, Token(p))) =>
         (Done(p)' /\ trace'[p] = <<GetOk>>)
    /\ (Succeeded(p) /\ Attaching(p) /\ trace[p] = <<GetOk, UpdateOk>>
          /\ args'[p].ref = args[p].ref /\ trace'[p][1] = GetOk) =>
         /\ Done(p)' /\ trace'[p] = <<GetOk>>
         /\ ret'[p].err \in {NoErr, ErrHash}
         /\ Count(store'.finalizers, Token(p)) = 1

C2_AttachTwiceOneUpdate == [][\A p \in Consumers : C2_Step(p)]_vars

C2_Witness ==
  \E p \in Consumers :
    /\ Succeeded(p) /\ args[p].op = OpAttach /\ trace[p] = <<GetOk>>
    /\ Count(store.finalizers, Token(p)) = 1

\* C3: in the object a successful EnsureTopologyRef returns, every constraint
\* and every required and preferred affinity term has the stored label
\* selector when one was set and defaultLabelSelector otherwise, the stored
\* match-label-keys when the list was non-empty and defaultMatchLabelKeys
\* otherwise; the lists keep their length and order and every other field.
TermFilled(stored, got, dls, dmk) ==
  /\ got.TopologyKey = stored.TopologyKey
  /\ got.LabelSelector = IF stored.LabelSelector # NilSelector THEN stored.LabelSelector ELSE dls
  /\ got.MatchLabelKeys = IF stored.MatchLabelKeys # <<>> THEN stored.MatchLabelKeys ELSE dmk

TermsFilled(stored, got, dls, dmk) ==
  /\ Len(got) = Len(stored)
  /\ \A i \in 1..Len(stored) : TermFilled(stored[i], got[i], dls, dmk)

WeightedFilled(stored, got, dls, dmk) ==
  /\ Len(got) = Len(stored)
  /\ \A i \in 1..Len(stored) :
       /\ got[i].Weight = stored[i].Weight
       /\ TermFilled(stored[i].PodAffinityTerm, got[i].PodAffinityTerm, dls, dmk)

PodAffinityFilled(stored, got, dls, dmk) ==
  /\ got.isNil = stored.isNil
  /\ TermsFilled(stored.Required, got.Required, dls, dmk)
  /\ WeightedFilled(stored.Preferred, got.Preferred, dls, dmk)

SpecFilled(stored, got, dls, dmk) ==
  /\ got.TopologySpreadConstraints.isNil = stored.TopologySpreadConstraints.isNil
  /\ TermsFilled(stored.TopologySpreadConstraints.items, got.TopologySpreadConstraints.items, dls, dmk)
  /\ got.Affinity.isNil = stored.Affinity.isNil
  /\ PodAffinityFilled(stored.Affinity.PodAffinity, got.Affinity.PodAffinity, dls, dmk)
  /\ PodAffinityFilled(stored.Affinity.PodAntiAffinity, got.Affinity.PodAntiAffinity, dls, dmk)

C3_FillMissingOnly ==
  \A p \in Consumers :
    (Succeeded(p) /\ args[p].op = OpAttach) =>
      /\ ~ret[p].isNil
      /\ SpecFilled(spec0, topology[p].spec, args[p].dls, args[p].dmk)

C3_Witness ==
  \E p \in Consumers :
    /\ Succeeded(p) /\ args[p].op = OpAttach /\ spec0 = FullSpec
    /\ args[p].dls = "app=web" /\ args[p].dmk = <<>>
    /\ topology[p].spec.TopologySpreadConstraints.items[1].LabelSelector = "app=web"
    /\ topology[p].spec.TopologySpreadConstraints.items[2].LabelSelector = "app=db"
    /\ topology[p].spec # spec0

\* C4: a call makes at most one Update, after its successful Get; the object
\* EnsureTopologyRef hands to Update is the fetched one with the token added
\* and nothing else changed; and the stored Spec stays the one the Topology
\* was created with, whatever defaults the calls passed.
C4_DefaultsNeverPersisted ==
  /\ store.exists => store.spec = spec0
  /\ \A p \in Consumers :
       /\ Len(trace[p]) <= 2
       /\ CallsOf(p, "Get") \subseteq {1}
       /\ CallsOf(p, "Update") \subseteq {2}
       /\ CallsOf(p, "Update") # {} => trace[p][1] = GetOk
       /\ (pc[p] = "update" /\ Attaching(p)) =>
            /\ trace[p] = <<GetOk>>
            /\ topology[p].spec = spec0
            /\ ~StaleRead(p) => topology[p].finalizers = Append(store.finalizers, Token(p))

C4_Witness ==
  \E p, q \in Consumers :
    /\ p # q /\ spec0 = FullSpec /\ Holds(p) /\ Holds(q)
    /\ Succeeded(p) /\ args[p].op = OpAttach /\ trace[p] = <<GetOk, UpdateOk>>
    /\ topology[p].spec # spec0
    /\ Succeeded(q) /\ args[q].op = OpAttach /\ args[q].dls # args[p].dls

\* C5: with a valid reference, when the Get reports not-found
\* EnsureTopologyRef returns that error with an empty hash and
\* EnsureDeletedTopologyRef returns success; any other Get error is returned
\* by both; in every case no Update is made.
C5_FetchErrors ==
  \A p \in Consumers :
    (Done(p) /\ ~BadRef(args[p].ref) /\ trace[p][1].err # NoErr) =>
      /\ Len(trace[p]) = 1
      /\ trace[p][1].err \in {ErrNotFound, ErrStore}
      /\ Attaching(p) => (ret[p].err = trace[p][1].err /\ ret[p].hash = EmptyHash)
      /\ (args[p].op = OpDetach /\ trace[p][1].err = ErrNotFound) => ret[p].err = NoErr
      /\ (args[p].op = OpDetach /\ trace[p][1].err # ErrNotFound) => ret[p].err = trace[p][1].err

C5_Witness ==
  \E p, q \in Consumers :
    /\ Done(p) /\ args[p].op = OpAttach /\ trace[p] = <<StoreCall("Get", ErrNotFound)>>
    /\ ret[p].err = ErrNotFound
    /\ Done(q) /\ args[q].op = OpDetach /\ trace[q] = <<StoreCall("Get", ErrNotFound)>>
    /\ ret[q].err = NoErr
    /\ ~store.exists

\* C6: when a successful EnsureTopologyRef returns, the stored object carries
\* the token exactly once; when a successful EnsureDeletedTopologyRef returns,
\* the object is gone or does not carry the token.  Attaching when the token
\* is stored, and detaching when it is not or when the object is gone, make
\* no Update and succeed (but for a Get or a hashing that fails for reasons
\* of its own).
C6_Step(p) ==
  /\ (PStep(p) /\ Succeeded(p)' /\ Attaching(p)') =>
       (store'.exists /\ Count(store'.finalizers, Token(p)) = 1)
  /\ (PStep(p) /\ Succeeded(p)' /\ args'[p].op = OpDetach) => ~Holds(p)'
  /\ (Starts(p) /\ Attaching(p)' /\ ~BadRef(args'[p].ref) /\ Holds(p)
        /\ trace'[p][1].err # ErrStore) =>
       (Done(p)' /\ trace'[p] = <<GetOk>> /\ ret'[p].err \in {NoErr, ErrHash})
  /\ (Starts(p) /\ args'[p].op = OpDetach /\ ~BadRef(args'[p].ref) /\ ~Holds(p)
        /\ trace'[p][1].err # ErrStore) =>
       (Done(p)' /\ Len(trace'[p]) = 1 /\ ret'[p].err = NoErr /\ store'.finalizers = store.finalizers)

C6_AttachDetachStateMachine == [][\A p \in Consumers : C6_Step(p)]_vars

C6_Witness ==
  \E p \in Consumers :
    /\ Succeeded(p) /\ args[p].op = OpDetach /\ trace[p] = <<GetOk, UpdateOk>>
    /\ store.exists /\ ~store.deleting /\ ~Holds(p)

\* C7: two successful EnsureTopologyRef calls with the same defaults return
\* the same hash, whether or not each of them had to persist the token; and
\* two whose defaulted Specs differ return different hashes.
C7_HashStability ==
  \A p, q \in Consumers :
    (Succeeded(p) /\ Succeeded(q) /\ args[p].op = OpAttach /\ args[q].op = OpAttach) =>
      /\ (args[p].dls = args[q].dls /\ args[p].dmk = args[q].dmk) => ret[p].hash = ret[q].hash
      /\ topology[p].spec # topology[q].spec => ret[p].hash # ret[q].hash
      /\ ret[p].hash # EmptyHash

C7_Witness ==
  \E p, q \in Consumers :
    /\ p # q /\ spec0 = FullSpec
    /\ Succeeded(p) /\ args[p].op = OpAttach /\ trace[p] = <<GetOk, UpdateOk>>
    /\ Succeeded(q) /\ args[q].op = OpAttach /\ trace[q] = <<GetOk>>
    /\ args[p].dls = args[q].dls /\ args[p].dmk = args[q].dmk
    /\ topology[p].finalizers # topology[q].finalizers
    /\ ret[p].hash = ret[q].hash

\* C8: a step of one consumer's call never adds or removes the other
\* consumer's token; an Update made from a read that another write has
\* overtaken changes nothing and ends the call with the store's error, after
\* that one Update; and a stored token leaves the store only by its own
\* consumer's EnsureDeletedTopologyRef or with the object itself.
C8_Step(p) ==
  /\ PStep(p) =>
       \A q \in Consumers \ {p} :
         Contains(store'.finalizers, Token(q)) = Contains(store.finalizers, Token(q))
  /\ (Updates(p) /\ store.exists /\ StaleRead(p)) =>
       /\ store' = store
       /\ Done(p)' /\ ret'[p].err = ErrConflict
       /\ trace'[p] = <<GetOk, StoreCall("Update", ErrConflict)>>
  /\ (Holds(p) /\ ~Holds(p)') =>
       \/ Updates(p) /\ args[p].op = OpDetach /\ trace'[p][2] = UpdateOk
       \/ ~store'.exists /\ \A q \in Consumers : ~PStep(q)

C8_IndependentTokens == [][\A p \in Consumers : C8_Step(p)]_vars

C8_Witness ==
  \E p, q \in Consumers :
    /\ p # q
    /\ Done(p) /\ Attaching(p) /\ trace[p] = <<GetOk, StoreCall("Update", ErrConflict)>>
    /\ ret[p].err = ErrConflict
    /\ Succeeded(q) /\ Attaching(q) /\ trace[q] = <<GetOk, UpdateOk>>
    /\ Holds(q) /\ ~Holds(p) /\ store.current = {}

\* C9: EnsureDeletedTopologyRef makes an Update exactly when the fetched
\* object carries the token; a not-found answer to it is success, any other
\* error is returned and the stored object still carries the token.
C9_Step(p) ==
  /\ (Starts(p) /\ args'[p].op = OpDetach /\ ~BadRef(args'[p].ref)
        /\ trace'[p][1] = GetOk) =>
       (Contains(store.finalizers, Token(p)) <=> pc'[p] = "update")
  /\ (Updates(p) /\ args[p].op = OpDetach) =>
       /\ Done(p)' /\ Len(trace'[p]) = 2 /\ trace'[p][2].call = "Update"
       /\ trace'[p][2].err \in {NoErr, ErrNotFound} => ret'[p].err = NoErr
       /\ trace'[p][2].err \notin {NoErr, ErrNotFound} =>
            /\ ret'[p].err = trace'[p][2].err
            /\ Holds(p)'

C9_DetachUpdateErrors == [][\A p \in Consumers : C9_Step(p)]_vars

C9_Witness ==
  \E p, q \in Consumers :
    /\ p # q
    /\ Done(p) /\ args[p].op = OpDetach
    /\ trace[p] = <<GetOk, StoreCall("Update", ErrNotFound)>> /\ ret[p].err = NoErr
    /\ Done(q) /\ args[q].op = OpDetach
    /\ trace[q] = <<GetOk, StoreCall("Update", ErrNotFound)>> /\ ret[q].err = NoErr

\* C10: EnsureTopologyRef makes its Update before it fills defaults and
\* hashes.  When the Update fails the call returns that error with an empty
\* hash and the object as fetched, token added, no default filled, and the
\* store is unchanged; when the Update succeeds and the hashing fails the
\* call returns the hash error with the defaulted copy and an empty hash,
\* and the stored object carries the token and the Spec without defaults.
C10_Step(p) ==
  (Updates(p) /\ args[p].op = OpAttach) =>
    /\ Done(p)' /\ Len(trace'[p]) = 2 /\ trace'[p][2].call = "Update"
    /\ trace'[p][2].err # NoErr =>
         /\ ret'[p] = [isNil |-> FALSE, hash |-> EmptyHash, err |-> trace'[p][2].err]
         /\ topology'[p] = topology[p] /\ topology'[p].spec = spec0
         /\ store' = store
    /\ trace'[p][2].err = NoErr =>
         /\ Holds(p)' /\ store'.spec = spec0
         /\ store'.finalizers = topology[p].finalizers
         /\ ret'[p].err \in {NoErr, ErrHash}
         /\ SpecFilled(spec0, topology'[p].spec, args[p].dls, args[p].dmk)
         /\ ret'[p].err = ErrHash => (ret'[p].hash = EmptyHash /\ ~ret'[p].isNil)

C10_UpdateBeforeDefaults == [][\A p \in Consumers : C10_Step(p)]_vars

C10_Witness ==
  \E p, q \in Consumers :
    /\ p # q /\ spec0 = FullSpec
    /\ Done(p) /\ args[p].op = OpAttach /\ trace[p] = <<GetOk, UpdateOk>>
    /\ ret[p].err = ErrHash /\ topology[p].spec # spec0 /\ Holds(p) /\ store.spec = spec0
    /\ Done(q) /\ args[q].op = OpAttach /\ trace[q] = <<GetOk, StoreCall("Update", ErrStore)>>
    /\ ret[q].err = ErrStore /\ topology[q].spec = spec0 /\ ~Holds(q)

====
